---- MODULE Spec2Model ----
(***************************************************************************)
(* istio-sidecar-restarter: the two program variants of the repository     *)
(* (src/main.go, the in-cluster program, and src/unnamed/part_000, the     *)
(* kubeconfig program) as one state machine.  The variable `variant` says  *)
(* which of the two programs is running.                                   *)
(***************************************************************************)
EXTENDS Integers, Sequences, FiniteSets, TLC

(***************************************************************************)
(* Bounds of the model.                                                    *)
(***************************************************************************)
\* the wall clock is read in ticks 0..MaxClock
MaxClock == 2
\* clock ticks per second: RFC 3339 renders whole seconds only
TicksPerSecond == 2
\* the pods of namespace ns1 are any MaxPods or fewer of the pods of the cluster
MaxPods == 2
\* a pod has at most MaxInit init containers (pure-function harness)
MaxInit == 2
\* writes by other clients of the cluster between a fetch and its update
MaxConcurrentMods == 1
\* the model follows one owner chain through at most MaxDepth ReplicaSet fetches;
\* the program itself has no such limit
MaxDepth == 4

(***************************************************************************)
(* The two programs.                                                       *)
(***************************************************************************)
MainGo == "main.go"
Part000 == "part_000"
Variants == {MainGo, Part000}

VARIABLES
  variant,        \* which program runs
  mode,           \* "batch": main runs; "unit": one call of traverseOwners; "pure"
  nsFlag,         \* -namespace
  allNs,          \* -all-namespaces
  pc,             \* position of the program
  istioIdx,       \* index into istioWorkloads (main's first loop)
  namespaces,     \* result of getNamespaces
  nsIdx,          \* index into namespaces (main's second loop)
  cluster,        \* the pods of each namespace of the cluster, in listing order
  pods,           \* pods.Items of the namespace being processed
  podIdx,         \* index into pods
  processedCount, \* processPodsInNamespace's processedCount
  processedPods,  \* main's processedPods
  curNs,          \* traverseOwners' namespace argument
  ref,            \* traverseOwners' ownerRef argument
  fetched,        \* the workload object fetched by Get, in memory
  store,          \* the cluster's workloads: pod-template annotations, resourceVersion
  clock,          \* time.Now(), in ticks
  result,         \* what processPod / traverseOwners last returned
  \* history
  contacted,      \* a cluster API call has been made
  clientMade,     \* the client configuration has been set up
  calls,          \* the API calls of the current resolver invocation
  rootRef,        \* the owner reference the current invocation started from
  before,         \* store, as it was when the current invocation started
  invoked,        \* resolver invocations for the current listing, in order
  visited,        \* the namespaces whose pods were listed (or failed to list)
  updateLog,      \* every workload Update the resolver attempted
  apiFailed,      \* some API call of the run has failed
  mods,           \* writes by other clients so far
  tally,          \* outcomes of the marker-carrying pods processed so far
  \* pure-function harness
  pureFn, pureArg, pureTime, pureRet, pureDone

progVars == <<variant, mode, nsFlag, allNs, pc, istioIdx, namespaces, nsIdx, cluster,
              pods, podIdx, processedCount, processedPods, curNs, ref, fetched,
              store, clock, result>>
histVars == <<contacted, clientMade, calls, rootRef, before, invoked, visited,
              updateLog, apiFailed, mods, tally>>
pureVars == <<pureFn, pureArg, pureTime, pureRet, pureDone>>
vars == <<progVars, histVars, pureVars>>

(***************************************************************************)
(* Annotations.  A Go map[string]string may be nil: [nil, kv].             *)
(***************************************************************************)
RestartedAt == "kubectl.kubernetes.io/restartedAt"
EmptyMap == [k \in {} |-> ""]
NilAnnotations == [nil |-> TRUE, kv |-> EmptyMap]
MakeMap(kv) == [nil |-> FALSE, kv |-> kv]

TwoDigits(n) == IF n < 10 THEN "0" \o ToString(n) ELSE ToString(n)

\* time.Time.Format(time.RFC3339): whole seconds, the sub-second part is dropped
RFC3339(t) ==
  LET s == t \div TicksPerSecond
  IN  "1970-01-01T00:" \o TwoDigits((s \div 60) % 60) \o ":" \o TwoDigits(s % 60) \o "Z"

\* the second an RFC 3339 rendering names (renderings compare as their seconds do)
ParseRFC3339(str) ==
  CHOOSE s \in 0..(MaxClock + 1) : RFC3339(s * TicksPerSecond) = str

addRestartAnnotation_Fresh(annotations, now) ==
  MakeMap([k \in {RestartedAt} |-> RFC3339(now)])

addRestartAnnotation_KeepOld(annotations, now) ==
  LET m == IF annotations.nil THEN EmptyMap ELSE annotations.kv
  IN  MakeMap([k \in DOMAIN m \cup {RestartedAt} |->
                 IF k \in DOMAIN m THEN m[k] ELSE RFC3339(now)])

addRestartAnnotation(annotations, now) ==
  LET m == IF annotations.nil THEN EmptyMap ELSE annotations.kv
  IN  MakeMap([k \in DOMAIN m \cup {RestartedAt} |->
                 IF k = RestartedAt THEN RFC3339(now) ELSE m[k]])

(***************************************************************************)
(* The sidecar marker.                                                     *)
(***************************************************************************)
SidecarContainerNames ==
  IF variant = MainGo THEN {"istio-init", "istio-validation"} ELSE {"istio-validation"}

hasIstioSidecar(pod) ==
  \E i \in 1..Len(pod.init) : pod.init[i] \in SidecarContainerNames

(***************************************************************************)
(* The cluster: namespaces, ReplicaSets, workloads and pods.               *)
(***************************************************************************)
istioNamespace == "istio-system"
ClusterNamespaces == <<"istio-system", "kube-system", "ns1">>

Ref(kind, name) == [kind |-> kind, name |-> name]

\* the ReplicaSets of the cluster with their owner references, by <<namespace, name>>
ReplicaSets ==
  [k \in {<<"ns1", "web-1">>, <<"ns1", "web-2">>, <<"ns1", "orphan">>,
          <<"ns1", "outer">>, <<"ns1", "rollout-1">>,
          <<"ns1", "loop-a">>, <<"ns1", "loop-b">>, <<"ns1", "self">>} |->
     CASE k[2] = "web-1"     -> [owners |-> <<Ref("Deployment", "web")>>]
       [] k[2] = "web-2"     -> [owners |-> <<Ref("Deployment", "web"), Ref("CronJob", "x")>>]
       [] k[2] = "orphan"    -> [owners |-> <<>>]
       [] k[2] = "outer"     -> [owners |-> <<Ref("ReplicaSet", "web-1")>>]
       [] k[2] = "rollout-1" -> [owners |-> <<Ref("Rollout", "canary")>>]
       [] k[2] = "loop-a"    -> [owners |-> <<Ref("ReplicaSet", "loop-b")>>]
       [] k[2] = "loop-b"    -> [owners |-> <<Ref("ReplicaSet", "loop-a")>>]
       [] k[2] = "self"      -> [owners |-> <<Ref("ReplicaSet", "self")>>]]

\* the workloads of the cluster, by <<namespace, kind, name>>
Workloads ==
  {<<"ns1", "Deployment", "web">>, <<"ns1", "DaemonSet", "agent">>,
   <<"ns1", "StatefulSet", "db">>, <<"kube-system", "DaemonSet", "kube-proxy">>,
   <<"istio-system", "Deployment", "istiod">>,
   <<"istio-system", "Deployment", "istio-ingressgateway">>,
   <<"istio-system", "DaemonSet", "istio-cni-node">>}

\* the pod-template annotations the workloads start with
InitialAnnotations(w) ==
  CASE w[3] = "web"   -> MakeMap([k \in {"app"} |-> "web"])
    [] w[3] = "db"    -> MakeMap([k \in {"app", RestartedAt} |->
                                    IF k = "app" THEN "db" ELSE RFC3339(0)])
    [] w[3] = "agent" -> NilAnnotations
    [] w[3] = "istiod" -> MakeMap([k \in {"sidecar.istio.io/inject"} |-> "false"])
    [] OTHER          -> MakeMap(EmptyMap)

InitialStore == [w \in Workloads |-> [ann |-> InitialAnnotations(w), rv |-> 1]]

Pod(name, ns, init, owners) ==
  [name |-> name, ns |-> ns, init |-> init, owners |-> owners]

\* the pods namespace ns1 may hold, in the order a listing returns them
Ns1Pods ==
  << Pod("web-a", "ns1", <<"istio-init">>, <<Ref("ReplicaSet", "web-1")>>),
     Pod("web-b", "ns1", <<"app-init", "istio-validation">>, <<Ref("ReplicaSet", "web-2")>>),
     Pod("lone", "ns1", <<"istio-validation">>, <<Ref("ReplicaSet", "orphan")>>),
     Pod("job-1", "ns1", <<"istio-validation">>, <<Ref("CronJob", "nightly")>>),
     Pod("bare", "ns1", <<"istio-validation">>, <<>>),
     Pod("plain", "ns1", <<"sleep">>, <<Ref("Deployment", "web")>>) >>

KubeSystemPods ==
  << Pod("kube-proxy-x", "kube-system", <<"istio-validation">>,
         <<Ref("DaemonSet", "kube-proxy")>>) >>

\* the elements of seq at the indices in idx, in order
RECURSIVE Pick(_, _, _)
Pick(seq, idx, i) ==
  IF i > Len(seq) THEN <<>>
  ELSE (IF i \in idx THEN <<seq[i]>> ELSE <<>>) \o Pick(seq, idx, i + 1)

Listings ==
  {Pick(Ns1Pods, idx, 1) : idx \in {s \in SUBSET (1..Len(Ns1Pods)) : Cardinality(s) <= MaxPods}}

ClusterWith(listing) ==
  [n \in {"istio-system", "kube-system", "ns1"} |->
     CASE n = "ns1" -> listing
       [] n = "kube-system" -> KubeSystemPods
       [] OTHER -> <<>>]

\* Pods(namespace).List: the empty namespace lists the pods of every namespace
PodsOf(ns) ==
  CASE ns = "" -> cluster["kube-system"] \o cluster["ns1"]
    [] ns \in DOMAIN cluster -> cluster[ns]
    [] OTHER -> <<>>

(***************************************************************************)
(* Values.                                                                 *)
(***************************************************************************)
Nil == "nil"
NoRef == Ref("", "")
NoObject == [key |-> <<"", "", "">>, ann |-> NilAnnotations, rv |-> 0]
NoResult == [err |-> Nil, outcome |-> "none"]
Outcomes == {"restarted", "unowned", "unsupported", "skipped", "error"}
ZeroTally == [o \in Outcomes |-> 0]

\* main.go: the three Istio components; part_000: the list is commented out
istioWorkloads ==
  IF variant = MainGo
  THEN << [Name |-> "istiod", Type |-> "deployment"],
          [Name |-> "istio-ingressgateway", Type |-> "deployment"],
          [Name |-> "istio-cni-node", Type |-> "daemonset"] >>
  ELSE << >>

(***************************************************************************)
(* Initial states.                                                         *)
(***************************************************************************)
PureIdle ==
  /\ pureFn = "none" /\ pureArg = NilAnnotations /\ pureTime = 0
  /\ pureRet = NilAnnotations /\ pureDone = FALSE

ProgramIdle ==
  /\ istioIdx = 1 /\ namespaces = <<>> /\ nsIdx = 1
  /\ pods = <<>> /\ podIdx = 1 /\ processedCount = 0 /\ processedPods = 0
  /\ fetched = NoObject /\ store = InitialStore /\ clock = 0 /\ result = NoResult
  /\ calls = <<>> /\ before = InitialStore /\ invoked = <<>> /\ visited = <<>>
  /\ updateLog = <<>> /\ apiFailed = FALSE /\ mods = 0 /\ tally = ZeroTally

\* the process has started and flag.Parse() has returned
Init ==
  /\ variant \in Variants
  /\ mode = "batch"
  /\ nsFlag \in {"", "ns1"}
  /\ allNs \in BOOLEAN
  /\ pc = "start"
  /\ cluster \in {ClusterWith(l) : l \in Listings}
  /\ curNs = "" /\ ref = NoRef /\ rootRef = NoRef
  /\ contacted = FALSE /\ clientMade = FALSE
  /\ ProgramIdle
  /\ PureIdle

(***************************************************************************)
(* processPod's return, as its caller handles it.                          *)
(***************************************************************************)
\* processPodsInNamespace: a failed pod is logged and not counted
CountAfterPod_CountAll(err, count) ==
  IF variant = MainGo THEN count + 1 ELSE count

CountAfterPod(err, count) ==
  IF variant = MainGo /\ err = Nil THEN count + 1 ELSE count

\* both programs: `continue` (main.go) or fall through to the next pod (part_000)
NextPodAfter_Abort(err, idx) ==
  IF err = Nil THEN idx + 1 ELSE Len(pods) + 1

NextPodAfter(err, idx) == idx + 1

\* processPod (or, in a unit call, traverseOwners) returns err
Return(err, outcome) ==
  /\ result' = [err |-> err, outcome |-> outcome]
  /\ tally' = [tally EXCEPT ![outcome] = @ + 1]
  /\ IF mode = "batch"
     THEN /\ pc' = "podloop"
          /\ podIdx' = NextPodAfter(err, podIdx)
          /\ processedCount' = CountAfterPod(err, processedCount)
     ELSE /\ pc' = "returned"
          /\ UNCHANGED <<podIdx, processedCount>>

(***************************************************************************)
(* traverseOwners and restartWorkload.                                     *)
(***************************************************************************)
ApiCall(verb, kind, ns, name, ok) ==
  [verb |-> verb, kind |-> kind, ns |-> ns, name |-> name, ok |-> ok]

\* the switch of traverseOwners on ownerRef.Kind
switchKind_RestartAll(kind) ==
  CASE kind = "ReplicaSet" -> "ReplicaSet"
    [] OTHER -> "restart"

switchKind(kind) ==
  CASE kind = "ReplicaSet" -> "ReplicaSet"
    [] kind \in {"Deployment", "DaemonSet"} -> "restart"
    [] kind = "StatefulSet" /\ variant = MainGo -> "restart"
    [] OTHER -> "default"

\* after a fetched ReplicaSet: recurse on its first owner reference, if it has one
AfterReplicaSet(owners) == IF Len(owners) > 0 THEN "recurse" ELSE "return"

\* a ReplicaSet without owner references: the switch is left and nil returned
UnownedResult_Error == "ReplicaSet has no owner references"

UnownedResult == Nil

\* after a failed Update: return the error
AfterFailedUpdate_Retry == "fetched"

AfterFailedUpdate == "return"

\* the depth of the recursion: the ReplicaSets fetched so far in this invocation
Depth(cs) == Len(SelectSeq(cs, LAMBDA c : c.verb = "get" /\ c.kind = "ReplicaSet" /\ c.ok))

\* case "ReplicaSet": ReplicaSets(namespace).Get
GetReplicaSet ==
  /\ pc = "traverse"
  /\ switchKind(ref.kind) = "ReplicaSet"
  /\ Depth(calls) < MaxDepth
  /\ \E answer \in BOOLEAN :
       LET ok == answer /\ <<curNs, ref.name>> \in DOMAIN ReplicaSets
       IN  /\ calls' = Append(calls, ApiCall("get", "ReplicaSet", curNs, ref.name, ok))
           /\ contacted' = TRUE
           /\ apiFailed' = (apiFailed \/ ~ok)
           /\ IF ~ok
              THEN /\ Return("failed to get ReplicaSet", "error")
                   /\ UNCHANGED ref
              ELSE LET owners == ReplicaSets[<<curNs, ref.name>>].owners
                   IN  IF AfterReplicaSet(owners) = "recurse"
                       THEN /\ ref' = owners[1]
                            /\ pc' = "traverse"
                            /\ UNCHANGED <<result, tally, podIdx, processedCount>>
                       ELSE /\ Return(UnownedResult, "unowned")
                            /\ UNCHANGED ref
  /\ UNCHANGED <<variant, mode, nsFlag, allNs, istioIdx, namespaces, nsIdx, cluster, pods,
                 processedPods, curNs, fetched, store, clock>>
  /\ UNCHANGED <<clientMade, rootRef, before, invoked, visited, updateLog, mods>>
  /\ UNCHANGED pureVars

\* case "Deployment", "DaemonSet", "StatefulSet": the workload's Get
GetWorkload ==
  /\ pc = "traverse"
  /\ switchKind(ref.kind) = "restart"
  /\ \E answer \in BOOLEAN :
       LET key == <<curNs, ref.kind, ref.name>>
           ok == answer /\ key \in DOMAIN store
       IN  /\ calls' = Append(calls, ApiCall("get", ref.kind, curNs, ref.name, ok))
           /\ contacted' = TRUE
           /\ apiFailed' = (apiFailed \/ ~ok)
           /\ IF ~ok
              THEN /\ Return("failed to get workload", "error")
                   /\ UNCHANGED fetched
              ELSE /\ fetched' = [key |-> key, ann |-> store[key].ann, rv |-> store[key].rv]
                   /\ pc' = "fetched"
                   /\ UNCHANGED <<result, tally, podIdx, processedCount>>
  /\ UNCHANGED <<variant, mode, nsFlag, allNs, istioIdx, namespaces, nsIdx, cluster, pods,
                 processedPods, curNs, ref, store, clock>>
  /\ UNCHANGED <<clientMade, rootRef, before, invoked, visited, updateLog, mods>>
  /\ UNCHANGED pureVars

\* addRestartAnnotation on the fetched object, then the workload's Update.  The
\* cluster refuses an object whose resourceVersion is no longer current (a conflict).
UpdateWorkload ==
  /\ pc = "fetched"
  /\ \E answer \in BOOLEAN, d \in 0..1 :
       /\ clock + d <= MaxClock
       /\ clock' = clock + d
       /\ LET key == fetched.key
              obj == [fetched EXCEPT !.ann = addRestartAnnotation(@, clock')]
              ok == answer /\ store[key].rv = fetched.rv
          IN  /\ calls' = Append(calls, ApiCall("update", key[2], key[1], key[3], ok))
              /\ updateLog' = Append(updateLog,
                                [key |-> key, ann |-> obj.ann, at |-> clock', ok |-> ok])
              /\ apiFailed' = (apiFailed \/ ~ok)
              /\ fetched' = obj
              /\ IF ok
                 THEN /\ store' = [store EXCEPT ![key] = [ann |-> obj.ann, rv |-> @.rv + 1]]
                      /\ Return(Nil, "restarted")
                 ELSE /\ UNCHANGED store
                      /\ IF AfterFailedUpdate = "return"
                         THEN Return("failed to update workload", "error")
                         ELSE /\ pc' = "fetched"
                              /\ UNCHANGED <<result, tally, podIdx, processedCount>>
  /\ UNCHANGED <<variant, mode, nsFlag, allNs, istioIdx, namespaces, nsIdx, cluster, pods,
                 processedPods, curNs, ref>>
  /\ UNCHANGED <<contacted, clientMade, rootRef, before, invoked, visited, mods>>
  /\ UNCHANGED pureVars

\* default: the kind is logged as unsupported and nil is returned
UnsupportedKind ==
  /\ pc = "traverse"
  /\ switchKind(ref.kind) = "default"
  /\ Return(Nil, "unsupported")
  /\ UNCHANGED <<variant, mode, nsFlag, allNs, istioIdx, namespaces, nsIdx, cluster, pods,
                 processedPods, curNs, ref, fetched, store, clock>>
  /\ UNCHANGED <<contacted, clientMade, calls, rootRef, before, invoked, visited,
                 updateLog, apiFailed, mods>>
  /\ UNCHANGED pureVars

\* another client of the cluster writes the workload between this program's Get and
\* its Update: the annotations change and the resourceVersion moves on
ConcurrentModify ==
  /\ pc = "fetched"
  /\ mods < MaxConcurrentMods
  /\ mods' = mods + 1
  /\ LET m == IF store[fetched.key].ann.nil THEN EmptyMap ELSE store[fetched.key].ann.kv
     IN  store' = [store EXCEPT ![fetched.key] =
                     [ann |-> MakeMap([k \in DOMAIN m \cup {"edited-by"} |->
                                         IF k = "edited-by" THEN "kubectl" ELSE m[k]]),
                      rv |-> @.rv + 1]]
  /\ UNCHANGED <<variant, mode, nsFlag, allNs, pc, istioIdx, namespaces, nsIdx, cluster,
                 pods, podIdx, processedCount, processedPods, curNs, ref, fetched,
                 clock, result>>
  /\ UNCHANGED <<contacted, clientMade, calls, rootRef, before, invoked, visited,
                 updateLog, apiFailed, tally>>
  /\ UNCHANGED pureVars

Resolver == GetReplicaSet \/ GetWorkload \/ UpdateWorkload \/ UnsupportedKind \/ ConcurrentModify

(***************************************************************************)
(* main.                                                                   *)
(***************************************************************************)
\* main.go: log.Fatalf unless a namespace or -all-namespaces is given; part_000
\* validates nothing
ConfigFatal(namespace, allNamespaces) ==
  variant = MainGo /\ namespace = "" /\ ~allNamespaces

ValidateFlags ==
  /\ pc = "start"
  /\ pc' = IF ConfigFatal(nsFlag, allNs) THEN "fatal_config" ELSE "setup"
  /\ UNCHANGED <<variant, mode, nsFlag, allNs, istioIdx, namespaces, nsIdx, cluster, pods,
                 podIdx, processedCount, processedPods, curNs, ref, fetched, store,
                 clock, result>>
  /\ UNCHANGED histVars
  /\ UNCHANGED pureVars

\* rest.InClusterConfig / clientcmd.BuildConfigFromFlags, kubernetes.NewForConfig
SetupClient ==
  /\ pc = "setup"
  /\ \E ok \in BOOLEAN :
       /\ clientMade' = ok
       /\ pc' = IF ~ok THEN "fatal_client"
                ELSE IF Len(istioWorkloads) > 0 THEN "istio" ELSE "getns"
  /\ UNCHANGED <<variant, mode, nsFlag, allNs, istioIdx, namespaces, nsIdx, cluster, pods,
                 podIdx, processedCount, processedPods, curNs, ref, fetched, store,
                 clock, result>>
  /\ UNCHANGED <<contacted, calls, rootRef, before, invoked, visited, updateLog,
                 apiFailed, mods, tally>>
  /\ UNCHANGED pureVars

\* restartIstioWorkload on istioWorkloads[istioIdx]; an error is logged
restartIstioWorkload ==
  /\ pc = "istio"
  /\ istioIdx <= Len(istioWorkloads)
  /\ \E getOk \in BOOLEAN, updOk \in BOOLEAN, d \in 0..1 :
       LET w == istioWorkloads[istioIdx]
           kind == IF w.Type = "deployment" THEN "Deployment" ELSE "DaemonSet"
           key == <<istioNamespace, kind, w.Name>>
       IN  /\ clock + d <= MaxClock
           /\ (~getOk => (d = 0 /\ ~updOk))
           /\ clock' = clock + d
           /\ store' = IF getOk /\ updOk
                       THEN [store EXCEPT ![key] =
                               [ann |-> addRestartAnnotation(@.ann, clock'), rv |-> @.rv + 1]]
                       ELSE store
           /\ apiFailed' = (apiFailed \/ ~getOk \/ ~updOk)
  /\ contacted' = TRUE
  /\ istioIdx' = istioIdx + 1
  /\ pc' = IF istioIdx = Len(istioWorkloads) THEN "getns" ELSE "istio"
  /\ UNCHANGED <<variant, mode, nsFlag, allNs, namespaces, nsIdx, cluster, pods, podIdx,
                 processedCount, processedPods, curNs, ref, fetched, result>>
  /\ UNCHANGED <<clientMade, calls, rootRef, before, invoked, visited, updateLog,
                 mods, tally>>
  /\ UNCHANGED pureVars

\* main.go skips three system namespaces; part_000 skips none
SkippedNamespaces ==
  IF variant = MainGo THEN {"kube-system", "kube-public", "kube-node-lease"} ELSE {}

RECURSIVE KeepNamespaces(_)
KeepNamespaces(list) ==
  IF list = <<>> THEN <<>>
  ELSE (IF Head(list) \in SkippedNamespaces THEN <<>> ELSE <<Head(list)>>)
       \o KeepNamespaces(Tail(list))

getNamespaces ==
  /\ pc = "getns"
  /\ IF allNs
     THEN \E ok \in BOOLEAN :
            /\ contacted' = TRUE
            /\ apiFailed' = (apiFailed \/ ~ok)
            /\ namespaces' = IF ok THEN KeepNamespaces(ClusterNamespaces) ELSE namespaces
            /\ pc' = IF ok THEN "nsloop" ELSE "fatal_namespaces"
     ELSE /\ namespaces' = <<nsFlag>>
          /\ pc' = "nsloop"
          /\ UNCHANGED <<contacted, apiFailed>>
  /\ UNCHANGED <<variant, mode, nsFlag, allNs, istioIdx, nsIdx, cluster, pods, podIdx,
                 processedCount, processedPods, curNs, ref, fetched, store, clock, result>>
  /\ UNCHANGED <<clientMade, calls, rootRef, before, invoked, visited, updateLog,
                 mods, tally>>
  /\ UNCHANGED pureVars

\* a failed listing: `continue` with the next namespace
NextNamespaceAfter(ok, idx) == IF ok THEN idx ELSE idx + 1

\* Pods(ns).List for namespaces[nsIdx]
ListPods ==
  /\ pc = "nsloop"
  /\ nsIdx <= Len(namespaces)
  /\ \E ok \in BOOLEAN :
       /\ contacted' = TRUE
       /\ apiFailed' = (apiFailed \/ ~ok)
       /\ visited' = Append(visited, namespaces[nsIdx])
       /\ nsIdx' = NextNamespaceAfter(ok, nsIdx)
       /\ IF ok
          THEN /\ pods' = PodsOf(namespaces[nsIdx])
               /\ podIdx' = 1
               /\ processedCount' = 0
               /\ invoked' = <<>>
               /\ pc' = "podloop"
          ELSE /\ pc' = "nsloop"
               /\ UNCHANGED <<pods, podIdx, processedCount, invoked>>
  /\ UNCHANGED <<variant, mode, nsFlag, allNs, istioIdx, namespaces, cluster,
                 processedPods, curNs, ref, fetched, store, clock, result>>
  /\ UNCHANGED <<clientMade, calls, rootRef, before, updateLog, mods, tally>>
  /\ UNCHANGED pureVars

\* the loop body over pods.Items: the marker test, then processPod
processPod ==
  /\ pc = "podloop"
  /\ podIdx <= Len(pods)
  /\ LET pod == pods[podIdx]
     IN  IF ~hasIstioSidecar(pod)
         THEN /\ podIdx' = podIdx + 1
              /\ UNCHANGED <<pc, processedCount, curNs, ref, result>>
              /\ UNCHANGED <<calls, rootRef, before, invoked, tally>>
         ELSE IF Len(pod.owners) = 0
         THEN /\ IF variant = MainGo
                 THEN Return(Nil, "skipped")
                 ELSE Return("pod has no owner references", "error")
              /\ UNCHANGED <<curNs, ref>>
              /\ UNCHANGED <<calls, rootRef, before, invoked>>
         ELSE /\ pc' = "traverse"
              /\ curNs' = pod.ns
              /\ ref' = pod.owners[1]
              /\ rootRef' = pod.owners[1]
              /\ calls' = <<>>
              /\ before' = store
              /\ invoked' = Append(invoked, [pod |-> pod.name, ref |-> pod.owners[1]])
              /\ UNCHANGED <<podIdx, processedCount, result, tally>>
  /\ UNCHANGED <<variant, mode, nsFlag, allNs, istioIdx, namespaces, nsIdx, cluster, pods,
                 processedPods, fetched, store, clock>>
  /\ UNCHANGED <<contacted, clientMade, visited, updateLog, apiFailed, mods>>
  /\ UNCHANGED pureVars

\* processPodsInNamespace returns its count, which main adds to processedPods
EndNamespace ==
  /\ pc = "podloop"
  /\ podIdx > Len(pods)
  /\ processedPods' = processedPods + processedCount
  /\ nsIdx' = nsIdx + 1
  /\ pc' = "nsloop"
  /\ UNCHANGED <<variant, mode, nsFlag, allNs, istioIdx, namespaces, cluster, pods, podIdx,
                 processedCount, curNs, ref, fetched, store, clock, result>>
  /\ UNCHANGED histVars
  /\ UNCHANGED pureVars

\* the namespaces are exhausted: main.go logs the total, and main returns
Summary ==
  /\ pc = "nsloop"
  /\ nsIdx > Len(namespaces)
  /\ pc' = "done"
  /\ UNCHANGED <<variant, mode, nsFlag, allNs, istioIdx, namespaces, nsIdx, cluster, pods,
                 podIdx, processedCount, processedPods, curNs, ref, fetched, store,
                 clock, result>>
  /\ UNCHANGED histVars
  /\ UNCHANGED pureVars

Main ==
  \/ ValidateFlags \/ SetupClient \/ restartIstioWorkload \/ getNamespaces
  \/ ListPods \/ processPod \/ EndNamespace \/ Summary

Next == Main \/ Resolver

Spec == Init /\ [][Next]_vars

\* the process is scheduled until it exits: every step it can take, it takes.
\* Other clients of the cluster (ConcurrentModify) owe the program nothing.
FairSpec == Spec /\ WF_vars(Main \/ GetReplicaSet \/ GetWorkload \/ UpdateWorkload \/ UnsupportedKind)

(***************************************************************************)
(* One call of traverseOwners, on any owner reference of the cluster.      *)
(***************************************************************************)
UnitCalls ==
  {<<"ns1", Ref("ReplicaSet", n)>> : n \in {"web-1", "web-2", "orphan", "outer", "rollout-1", "gone",
                                              "loop-a", "loop-b", "self"}}
  \cup {<<"ns1", Ref("Deployment", "web")>>, <<"ns1", Ref("DaemonSet", "agent")>>,
        <<"ns1", Ref("StatefulSet", "db")>>, <<"ns1", Ref("Deployment", "gone")>>,
        <<"ns1", Ref("CronJob", "nightly")>>, <<"ns1", Ref("Job", "once")>>,
        <<"kube-system", Ref("DaemonSet", "kube-proxy")>>}

ResolverInit ==
  /\ variant \in Variants
  /\ mode = "unit"
  /\ nsFlag = "ns1" /\ allNs = FALSE
  /\ pc = "traverse"
  /\ cluster = ClusterWith(<<>>)
  /\ \E c \in UnitCalls : curNs = c[1] /\ ref = c[2] /\ rootRef = c[2]
  /\ contacted = TRUE /\ clientMade = TRUE
  /\ ProgramIdle
  /\ PureIdle

ResolverSpec == ResolverInit /\ [][Resolver]_vars

(***************************************************************************)
(* The pure functions, on inputs drawn from bounded sets.                  *)
(***************************************************************************)
AnnotationKeys == {"app", "team", RestartedAt}
AnnotationValues == {"a", "b"}
AnnotationInputs ==
  {NilAnnotations}
  \cup {MakeMap(m) : m \in UNION {[S -> AnnotationValues] : S \in SUBSET AnnotationKeys}}

ContainerNames == {"istio-init", "istio-validation", "sleep"}
InitContainerInputs == UNION {[1..n -> ContainerNames] : n \in 0..MaxInit}

PureInit ==
  /\ variant \in Variants
  /\ mode = "pure"
  /\ nsFlag = "" /\ allNs = FALSE
  /\ pc = "pure"
  /\ cluster = ClusterWith(<<>>)
  /\ curNs = "" /\ ref = NoRef /\ rootRef = NoRef
  /\ contacted = FALSE /\ clientMade = FALSE
  /\ ProgramIdle
  /\ pureDone = FALSE
  /\ \/ /\ pureFn = "addRestartAnnotation"
        /\ pureArg \in AnnotationInputs
        /\ pureTime \in 0..MaxClock
        /\ pureRet = NilAnnotations
     \/ /\ pureFn = "hasIstioSidecar"
        /\ pureArg \in {Pod("p", "ns1", i, <<>>) : i \in InitContainerInputs}
        /\ pureTime = 0
        /\ pureRet = FALSE

CallAddRestartAnnotation ==
  /\ mode = "pure" /\ pureFn = "addRestartAnnotation" /\ ~pureDone
  /\ pureRet' = addRestartAnnotation(pureArg, pureTime)
  /\ pureDone' = TRUE
  /\ UNCHANGED <<pureFn, pureArg, pureTime>>
  /\ UNCHANGED progVars
  /\ UNCHANGED histVars

CallHasIstioSidecar ==
  /\ mode = "pure" /\ pureFn = "hasIstioSidecar" /\ ~pureDone
  /\ pureRet' = hasIstioSidecar(pureArg)
  /\ pureDone' = TRUE
  /\ UNCHANGED <<pureFn, pureArg, pureTime>>
  /\ UNCHANGED progVars
  /\ UNCHANGED histVars

PureNext == CallAddRestartAnnotation \/ CallHasIstioSidecar

PureSpec == PureInit /\ [][PureNext]_vars

(***************************************************************************)
(* Vocabulary of the properties.                                           *)
(***************************************************************************)
WorkloadKinds == {"Deployment", "DaemonSet", "StatefulSet"}
KnownKinds == WorkloadKinds \cup {"ReplicaSet"}
Keys(ann) == IF ann.nil THEN {} ELSE DOMAIN ann.kv
UpdateCalls(cs) == {i \in 1..Len(cs) : cs[i].verb = "update"}
AllCallsOk(cs) == \A i \in 1..Len(cs) : cs[i].ok
Returned == mode = "unit" /\ pc = "returned"

\* where the owner chain from reference r ends: the first reference that is no
\* ReplicaSet, or NoRef when the chain stops at a ReplicaSet that is missing or unowned
RECURSIVE ChainEnd(_, _, _)
ChainEnd(ns, r, fuel) ==
  IF r.kind # "ReplicaSet" THEN r
  ELSE IF fuel = 0 \/ <<ns, r.name>> \notin DOMAIN ReplicaSets THEN NoRef
  ELSE IF ReplicaSets[<<ns, r.name>>].owners = <<>> THEN NoRef
  ELSE ChainEnd(ns, ReplicaSets[<<ns, r.name>>].owners[1], fuel - 1)

\* the ReplicaSet at which the chain from r stops for want of an owner, if it does
RECURSIVE ChainStopsUnowned(_, _, _)
ChainStopsUnowned(ns, r, fuel) ==
  /\ r.kind = "ReplicaSet"
  /\ fuel > 0
  /\ <<ns, r.name>> \in DOMAIN ReplicaSets
  /\ \/ ReplicaSets[<<ns, r.name>>].owners = <<>>
     \/ /\ ReplicaSets[<<ns, r.name>>].owners # <<>>
        /\ ChainStopsUnowned(ns, ReplicaSets[<<ns, r.name>>].owners[1], fuel - 1)

ChainFuel == Cardinality(DOMAIN ReplicaSets) + 1
RootEnd == ChainEnd(curNs, rootRef, ChainFuel)
RootTarget == <<curNs, RootEnd.kind, RootEnd.name>>

(***************************************************************************)
(* C1.  An owner chain of zero or more ReplicaSets ending at a Deployment, *)
(* DaemonSet or StatefulSet, every API call succeeding: one call of        *)
(* traverseOwners makes exactly one update call, to the terminal workload  *)
(* (namespace, kind, name), and afterwards the workload's pod-template     *)
(* annotations hold restartedAt and every other annotation it had before   *)
(* the call, value unchanged.                                              *)
(***************************************************************************)
C1_ChainRestartsTerminalWorkload ==
  (/\ Returned
   /\ RootEnd.kind \in WorkloadKinds
   /\ RootTarget \in DOMAIN store
   /\ AllCallsOk(calls))
  => /\ Cardinality(UpdateCalls(calls)) = 1
     /\ \A i \in UpdateCalls(calls) :
          <<calls[i].ns, calls[i].kind, calls[i].name>> = RootTarget
     /\ RestartedAt \in Keys(store[RootTarget].ann)
     /\ \A k \in Keys(before[RootTarget].ann) \ {RestartedAt} :
          /\ k \in Keys(store[RootTarget].ann)
          /\ store[RootTarget].ann.kv[k] = before[RootTarget].ann.kv[k]

(***************************************************************************)
(* C2.  addRestartAnnotation(A) at time T returns a mapping whose keys are *)
(* the keys of A (none when A is nil) plus restartedAt, where restartedAt  *)
(* maps to the RFC 3339 rendering of T and every other key of A keeps the  *)
(* value it had in A.                                                      *)
(***************************************************************************)
C2_MutatorKeepsOtherKeys ==
  (pureDone /\ pureFn = "addRestartAnnotation")
  => /\ ~pureRet.nil
     /\ DOMAIN pureRet.kv = Keys(pureArg) \cup {RestartedAt}
     /\ pureRet.kv[RestartedAt] = RFC3339(pureTime)
     /\ ParseRFC3339(pureRet.kv[RestartedAt]) * TicksPerSecond <= pureTime
     /\ pureTime < (ParseRFC3339(pureRet.kv[RestartedAt]) + 1) * TicksPerSecond
     /\ \A k \in Keys(pureArg) \ {RestartedAt} : pureRet.kv[k] = pureArg.kv[k]

\* the mutator has run on a non-nil mapping that already held restartedAt and others
C2_Witness ==
  /\ pureDone /\ pureFn = "addRestartAnnotation"
  /\ ~pureArg.nil
  /\ Keys(pureArg) = AnnotationKeys
  /\ pureTime = MaxClock
  /\ pureRet.kv[RestartedAt] # pureArg.kv[RestartedAt]

(***************************************************************************)
(* C3.  traverseOwners reaching a ReplicaSet that was fetched and has no   *)
(* owner references returns nil (no error) and makes no update call: no    *)
(* object of the cluster is changed by that call.                          *)
(***************************************************************************)
C3_UnownedReplicaSetIsNoOp ==
  (/\ Returned
   /\ ChainStopsUnowned(curNs, rootRef, ChainFuel)
   /\ AllCallsOk(calls))
  => /\ result.err = Nil
     /\ result.outcome = "unowned"
     /\ UpdateCalls(calls) = {}
     /\ store = before

C3_Witness ==
  /\ Returned
  /\ rootRef = Ref("ReplicaSet", "orphan")
  /\ Len(calls) = 1 /\ calls[1].ok
  /\ result.outcome = "unowned"

(***************************************************************************)
(* C4.  traverseOwners on a reference whose kind is none of ReplicaSet,    *)
(* Deployment, DaemonSet, StatefulSet, at any depth of the chain, returns  *)
(* nil with the unsupported-kind outcome and makes no get and no update    *)
(* call for that reference: the calls made are the successful ReplicaSet   *)
(* fetches that led to it, one per level, and nothing is changed.          *)
(***************************************************************************)
C4_UnknownKindMakesNoCall ==
  (/\ mode = "unit"
   /\ RootEnd.kind \notin KnownKinds
   /\ RootEnd # NoRef
   /\ (Returned \/ ref = RootEnd))
  => /\ \A i \in 1..Len(calls) :
          /\ calls[i].verb = "get" /\ calls[i].kind = "ReplicaSet"
          /\ <<calls[i].kind, calls[i].name>> # <<RootEnd.kind, RootEnd.name>>
     /\ store = before
     /\ (Returned /\ AllCallsOk(calls))
          => (result.err = Nil /\ result.outcome = "unsupported" /\ ref = RootEnd)

C4_Witness ==
  /\ Returned
  /\ rootRef = Ref("ReplicaSet", "rollout-1")
  /\ ref = Ref("Rollout", "canary")
  /\ Len(calls) = 1
  /\ result.outcome = "unsupported"

(***************************************************************************)
(* C5.  Within one call of traverseOwners the first failing API call ends  *)
(* the call with an error and no API call follows it; a failed update is   *)
(* not retried, so there is at most one update attempt, and the workload   *)
(* is left as the cluster had it (the program's write did not land).       *)
(***************************************************************************)
C5_FirstFailureEndsTheCall ==
  mode = "unit"
  => /\ \A i \in 1..Len(calls) :
          ~calls[i].ok => (i = Len(calls) /\ pc = "returned" /\ result.err # Nil)
     /\ Cardinality(UpdateCalls(calls)) <= 1
     /\ \A i \in UpdateCalls(calls) :
          ~calls[i].ok =>
            LET key == <<calls[i].ns, calls[i].kind, calls[i].name>>
            IN  /\ store[key].rv = before[key].rv + mods
                /\ mods = 0 => store = before
                /\ \A k \in Keys(before[key].ann) :
                     /\ k \in Keys(store[key].ann)
                     /\ store[key].ann.kv[k] = before[key].ann.kv[k]

\* an update refused as a conflict after another client's write
C5_Witness ==
  /\ Returned
  /\ mods = 1
  /\ Len(calls) = 3
  /\ calls[3].verb = "update" /\ ~calls[3].ok
  /\ result.err = "failed to update workload"

(***************************************************************************)
(* C7.  hasIstioSidecar(pod) is true exactly when one of the pod's init    *)
(* containers is named istio-init or istio-validation.                     *)
(***************************************************************************)
C7_MarkerIffInitOrValidation ==
  (pureDone /\ pureFn = "hasIstioSidecar")
  => (pureRet = (\E i \in 1..Len(pureArg.init) :
                   pureArg.init[i] \in {"istio-init", "istio-validation"}))

(***************************************************************************)
(* Vocabulary of the batch properties.                                     *)
(***************************************************************************)
CarriesMarker(pod) ==
  \E i \in 1..Len(pod.init) : pod.init[i] \in {"istio-init", "istio-validation"}

\* the resolver invocations a listing calls for: one per marker-carrying pod that
\* has an owner reference, on its first owner reference, in listing order
RECURSIVE ExpectedInvocations(_)
ExpectedInvocations(listing) ==
  IF listing = <<>> THEN <<>>
  ELSE (IF CarriesMarker(Head(listing)) /\ Head(listing).owners # <<>>
        THEN <<[pod |-> Head(listing).name, ref |-> Head(listing).owners[1]]>>
        ELSE <<>>) \o ExpectedInvocations(Tail(listing))

InPodLoop == pc \in {"podloop", "traverse", "fetched"}
\* how many pods of the current listing have been taken up
Handled == IF pc \in {"traverse", "fetched"} THEN podIdx ELSE podIdx - 1
IsUpdateOf(e, key) == e.key = key
UpdatesTo(key) == SelectSeq(updateLog, LAMBDA e : IsUpdateOf(e, key))
Stamp(e) == e.ann.kv[RestartedAt]
SecondOf(t) == t \div TicksPerSecond

\* C6, its safety part: at every point of main.go's batch the namespaces listed
\* so far are the first namespaces of the set, each once and in order, and the
\* resolver invocations for the current listing are ExpectedInvocations of the pods
\* taken up so far, whatever the earlier pods and namespaces came to
C6_EveryPodInOrder ==
  variant = MainGo
  => /\ Handled <= Len(pods)
     /\ invoked = ExpectedInvocations(SubSeq(pods, 1, Handled))
     /\ Len(visited) = (IF InPodLoop THEN nsIdx ELSE nsIdx - 1)
     /\ Len(visited) <= Len(namespaces)
     /\ visited = SubSeq(namespaces, 1, Len(visited))
     /\ pc = "done" => visited = namespaces

WebKey == <<"ns1", "Deployment", "web">>

TwoPodsOneDeployment ==
  LET l == cluster["ns1"]
  IN  /\ Len(l) = 2
      /\ \A i \in 1..2 :
           /\ CarriesMarker(l[i])
           /\ l[i].owners # <<>>
           /\ l[i].owners[1].kind = "ReplicaSet"
           /\ ChainEnd("ns1", l[i].owners[1], ChainFuel) = Ref(WebKey[2], WebKey[3])
      /\ l[1].owners[1] # l[2].owners[1]

SharedDeploymentRun ==
  /\ variant = MainGo
  /\ pc = "done"
  /\ ~apiFailed
  /\ TwoPodsOneDeployment

\* C8, as claimed: the batch makes exactly two update calls on the Deployment, and
\* the restartedAt timestamp the second writes is strictly later than the first's
C8_SecondStampStrictlyLater ==
  SharedDeploymentRun
  => /\ Len(UpdatesTo(WebKey)) = 2
     /\ ParseRFC3339(Stamp(UpdatesTo(WebKey)[2])) > ParseRFC3339(Stamp(UpdatesTo(WebKey)[1]))

(***************************************************************************)
(* C8, as amended.  The batch makes exactly two update calls on the        *)
(* Deployment, one fetch-mutate-update cycle per pod, both accepted; each  *)
(* writes the RFC 3339 rendering of the clock at its time, so the second   *)
(* timestamp is not earlier than the first, and is strictly later exactly  *)
(* when the two updates fall in different seconds of the clock; the        *)
(* Deployment's other annotations are as they were.                        *)
(***************************************************************************)
C8_SecondStampNotEarlier ==
  SharedDeploymentRun
  => LET u == UpdatesTo(WebKey)
     IN  /\ Len(u) = 2
         /\ u[1].ok /\ u[2].ok
         /\ store[WebKey].rv = InitialStore[WebKey].rv + 2
         /\ \A i \in 1..2 : Stamp(u[i]) = RFC3339(u[i].at)
         /\ u[1].at <= u[2].at
         /\ ParseRFC3339(Stamp(u[2])) >= ParseRFC3339(Stamp(u[1]))
         /\ (ParseRFC3339(Stamp(u[2])) > ParseRFC3339(Stamp(u[1])))
              <=> (SecondOf(u[2].at) > SecondOf(u[1].at))
         /\ store[WebKey].ann.kv[RestartedAt] = Stamp(u[2])
         /\ \A k \in Keys(InitialStore[WebKey].ann) :
              store[WebKey].ann.kv[k] = InitialStore[WebKey].ann.kv[k]

\* the two updates were made at different times within one second: the two
\* timestamps are equal
C8_Witness ==
  /\ SharedDeploymentRun
  /\ Len(UpdatesTo(WebKey)) = 2
  /\ UpdatesTo(WebKey)[1].at < UpdatesTo(WebKey)[2].at
  /\ Stamp(UpdatesTo(WebKey)[1]) = Stamp(UpdatesTo(WebKey)[2])

\* C9, as claimed: the total main.go reports at the end of a run is the number of
\* marker-carrying pods whose resolution ended in a successful update of a workload
C9_TotalCountsRestartsOnly ==
  (variant = MainGo /\ pc = "done") => processedPods = tally["restarted"]

(***************************************************************************)
(* C9, as amended.  The total main.go reports at the end of a run is the   *)
(* number of marker-carrying pods whose processing returned no error: the  *)
(* pods whose workload was updated and the pods that ended in a no-op (no  *)
(* owner reference, unowned ReplicaSet, unsupported owner kind).  A pod    *)
(* that ended in an error is not counted.                                  *)
(***************************************************************************)
C9_TotalCountsPodsWithoutError ==
  (variant = MainGo /\ pc = "done")
  => processedPods = tally["restarted"] + tally["unowned"] + tally["unsupported"]
                       + tally["skipped"]

\* a run with one pod that failed and one that was skipped for want of an owner
C9_Witness ==
  /\ variant = MainGo /\ pc = "done"
  /\ tally["error"] = 1
  /\ tally["skipped"] = 1
  /\ processedPods = 1

(***************************************************************************)
(* C10.  Unless exactly one of -namespace <non-empty> and -all-namespaces  *)
(* is given, the process ends with a fatal configuration error before the  *)
(* client is set up and before any cluster API call.                       *)
(***************************************************************************)
ExactlyOneMode == (nsFlag # "") # allNs

C10_FatalUnlessExactlyOneMode ==
  (mode = "batch" /\ ~ExactlyOneMode)
  => /\ pc \in {"start", "fatal_config"}
     /\ ~clientMade
     /\ ~contacted

(***************************************************************************)
(* C11.  Depth of the resolver's recursion.                                *)
(***************************************************************************)
\* the get calls among cs
Fetches(cs) == {i \in 1..Len(cs) : cs[i].verb = "get"}
FetchesOk(cs) == \A i \in Fetches(cs) : cs[i].ok

\* following first owner references from ReplicaSet r leads to the ReplicaSet target
RECURSIVE LeadsTo(_, _, _, _)
LeadsTo(ns, r, target, fuel) ==
  /\ fuel > 0
  /\ r.kind = "ReplicaSet"
  /\ <<ns, r.name>> \in DOMAIN ReplicaSets
  /\ ReplicaSets[<<ns, r.name>>].owners # <<>>
  /\ LET next == ReplicaSets[<<ns, r.name>>].owners[1]
     IN  next = target \/ LeadsTo(ns, next, target, fuel - 1)

\* r is a ReplicaSet on an owner-reference cycle among ReplicaSets
OnCycle(ns, r) == LeadsTo(ns, r, r, ChainFuel)

\* the chain from r passes through more ReplicaSets than the cluster has: it never ends
RECURSIVE Endless(_, _, _)
Endless(ns, r, fuel) ==
  /\ r.kind = "ReplicaSet"
  /\ <<ns, r.name>> \in DOMAIN ReplicaSets
  /\ ReplicaSets[<<ns, r.name>>].owners # <<>>
  /\ (fuel = 0 \/ Endless(ns, ReplicaSets[<<ns, r.name>>].owners[1], fuel - 1))

\* the number of ReplicaSets on the finite chain from r
RECURSIVE ChainReplicaSets(_, _, _)
ChainReplicaSets(ns, r, fuel) ==
  IF r.kind # "ReplicaSet" \/ fuel = 0 THEN 0
  ELSE IF <<ns, r.name>> \notin DOMAIN ReplicaSets THEN 1
  ELSE IF ReplicaSets[<<ns, r.name>>].owners = <<>> THEN 1
  ELSE 1 + ChainReplicaSets(ns, ReplicaSets[<<ns, r.name>>].owners[1], fuel - 1)

\* on a cycle, all fetches succeeding: the resolver has not returned and is about to
\* fetch a ReplicaSet of the cycle again; it has made no update
CycleNeverReturns ==
  (mode = "unit" /\ OnCycle(curNs, rootRef) /\ FetchesOk(calls))
  => /\ pc = "traverse"
     /\ OnCycle(curNs, ref)
     /\ Len(calls) = Depth(calls)
     /\ UpdateCalls(calls) = {}
     /\ updateLog = <<>>
     /\ store = before

\* on a finite chain, all fetches succeeding: the fetches made by the time the
\* resolver returns, against the ReplicaSets of the chain plus terminal
FiniteChainFetches(terminal) ==
  (Returned /\ FetchesOk(calls) /\ ~Endless(curNs, rootRef, ChainFuel))
  => Cardinality(Fetches(calls)) = ChainReplicaSets(curNs, rootRef, ChainFuel) + terminal

\* C11: the resolver enforces no depth bound: on an owner-reference cycle among
\* ReplicaSets, all fetches succeeding, it never returns and never performs an
\* update; on every finite acyclic chain it returns after as many fetches as the
\* chain has ReplicaSets and terminal workloads (Deployment, DaemonSet, StatefulSet)
C11_CycleNeverReturnsChainFetchesAll ==
  /\ CycleNeverReturns
  /\ FiniteChainFetches(IF RootEnd.kind \in WorkloadKinds THEN 1 ELSE 0)

\* C11, where the program's switch has a case for the kind the chain ends at: the
\* terminal workload is fetched once when the switch restarts its kind
C11_CycleNeverReturnsHandledKindsFetched ==
  /\ CycleNeverReturns
  /\ FiniteChainFetches(IF switchKind(RootEnd.kind) = "restart" THEN 1 ELSE 0)

\* C11: a finite chain that ends: outer -> web-1 -> Deployment web, three fetches
C11_FiniteChainReturned ==
  /\ Returned
  /\ rootRef = Ref("ReplicaSet", "outer")
  /\ Cardinality(Fetches(calls)) = 3
  /\ result.outcome = "restarted"

\* C11: the cycle loop-a -> loop-b -> loop-a followed as deep as the model goes
C11_CycleAtDepthBound ==
  /\ mode = "unit"
  /\ rootRef = Ref("ReplicaSet", "loop-a")
  /\ FetchesOk(calls)
  /\ Depth(calls) = MaxDepth
  /\ pc = "traverse"

====
